---------------------------- MODULE Spec2Model ----------------------------
(***************************************************************************)
(* Model of src/main.py: NewsletterSender.send_newsletters, the dispatch   *)
(* engine that drives one SMTP session through a recipient list, together  *)
(* with the blacklist loader, the rate limiter and the connection test.    *)
(*                                                                         *)
(* Strings are sequences of one-character strings, so that strip() and     *)
(* lower() are computed and not assumed.  Time is kept relative to         *)
(* last_send_time (the only way the code reads the clock, line 70) and     *)
(* saturates at ClockCap.                                                  *)
(***************************************************************************)
EXTENDS Integers, Sequences, FiniteSets, TLC

(***************************************************************************)
(* Bounds of the model                                                     *)
(***************************************************************************)
MaxRecipients == 2      \* longest recipient file (rows)
MaxRows == 2            \* longest blacklist file (rows, header included)
MaxCols == 1            \* widest blacklist row (cells)
MaxBatch == 2           \* largest emails_per_batch of the configuration
ClockCap == 3           \* time since the last send saturates here

(***************************************************************************)
(* Program constants                                                       *)
(***************************************************************************)
retries == 3
ReconnectPause == 5
PolicyPause == 600
InvalidDomainCode == 556

(***************************************************************************)
(* Strings                                                                 *)
(***************************************************************************)
EMAIL == <<"e", "m", "a", "i", "l">>
EMPTY == <<>>
NoEmail == <<"N", "o", "n", "e">>   \* last_successful_email = None

LowerChar(c) ==
    CASE c = "A" -> "a"
      [] c = "B" -> "b"
      [] c = "E" -> "e"
      [] OTHER -> c

\* str.lower()
Lower(s) == [i \in 1..Len(s) |-> LowerChar(s[i])]

IsSpace(c) == c = " "

RECURSIVE LStrip(_)
LStrip(s) == IF s # <<>> /\ IsSpace(Head(s)) THEN LStrip(Tail(s)) ELSE s

RECURSIVE RStrip(_)
RStrip(s) ==
    IF s # <<>> /\ IsSpace(s[Len(s)]) THEN RStrip(SubSeq(s, 1, Len(s) - 1)) ELSE s

\* str.strip()
Strip(s) == RStrip(LStrip(s))

\* sub in s
Contains(sub, s) ==
    \E i \in 0..(Len(s) - Len(sub)) : SubSeq(s, i + 1, i + Len(sub)) = sub

\* All sequences over S of length at most n
RECURSIVE SeqsUpTo(_, _)
SeqsUpTo(S, n) ==
    IF n = 0 THEN {<<>>}
    ELSE LET shorter == SeqsUpTo(S, n - 1)
         IN  shorter \cup {Append(q, x) : q \in {r \in shorter : Len(r) = n - 1}, x \in S}

(***************************************************************************)
(* _read_blacklist (lines 93-152).  A file is a sequence of rows, a row a  *)
(* sequence of cells, as csv.reader yields them.                           *)
(***************************************************************************)
BlacklistCells == {EMAIL, <<"E", "m", "a", "i", "l">>, <<" ", "A">>, <<"b">>}
BlacklistRows == SeqsUpTo(BlacklistCells, MaxCols)
BlacklistFiles == SeqsUpTo(BlacklistRows, MaxRows)

\* line 116: 'email' in (peek or '').lower(), peek being the first line
HasHeader(file) ==
    /\ file # <<>>
    /\ \E j \in 1..Len(file[1]) : Contains(EMAIL, Lower(file[1][j]))

\* csv.DictReader row.get('email'): the cell under the last column whose
\* header is exactly 'email'; None (here EMPTY) when there is none
DictGetEmail(fieldnames, row) ==
    LET cols == {j \in 1..Len(fieldnames) : fieldnames[j] = EMAIL}
    IN  IF cols = {} THEN EMPTY
        ELSE LET j == CHOOSE k \in cols : \A m \in cols : m <= k
             IN  IF j <= Len(row) THEN row[j] ELSE EMPTY

\* lines 118-123
ReadHeadered(file) ==
    {e \in {Lower(Strip(DictGetEmail(file[1], file[i]))) :
               i \in {k \in 2..Len(file) : file[k] # <<>>}} : e # EMPTY}

\* lines 124-134
ReadHeaderless(file) ==
    {e \in {Lower(Strip(file[i][1])) : i \in {k \in 1..Len(file) : file[k] # <<>>}} :
        e # EMAIL /\ e # EMPTY}

ReadBlacklist(file) ==
    IF HasHeader(file) THEN ReadHeadered(file) ELSE ReadHeaderless(file)

(***************************************************************************)
(* Inputs                                                                  *)
(***************************************************************************)
RecipientAddresses == {<<"A", " ">>, <<"b">>}
RecipientFiles == SeqsUpTo(RecipientAddresses, MaxRecipients)

Configs ==
    [emails_per_batch : 1..MaxBatch, batch_delay : {1, 3}, delay_between_emails : {2}]

\* What server.send_message does: kind "ok", or the exception class raised,
\* with the code and whether the text holds 'policy violation'
SendOutcomes ==
    {[kind |-> "ok", code |-> 0, policy |-> FALSE]}
    \cup [kind : {"disconnected"}, code : {0}, policy : BOOLEAN]
    \cup [kind : {"refused", "data"}, code : {550, InvalidDomainCode}, policy : BOOLEAN]
    \cup [kind : {"other"}, code : {0}, policy : BOOLEAN]

NoOutcome == [kind |-> "none", code |-> 0, policy |-> FALSE]

\* seconds a network call may take
Elapsed == {0, 1}

VARIABLES
    pc,                     \* position in send_newsletters
    result,                 \* "running", "returned" or "raised"
    error,                  \* what ended the run early
    stop_on_error,          \* self.stop_on_error
    config,                 \* self.config['rate_limit']
    blacklist_emails,       \* local blacklist_emails
    recipients,             \* local recipients
    records,                \* rows written to the results file
    sent_count,             \* self.sent_count
    since_last_send,        \* time.time() - self.last_send_time, saturated
    last_successful_email,  \* self.last_successful_email
    index,                  \* loop variable of line 202
    attempt,                \* loop variable of line 218
    email_sent_successfully,
    non_fatal_skip,
    sessions,               \* every SMTP_SSL object made: "open" or "closed"
    server,                 \* the object the name server is bound to
    managed,                \* the object the with statement of line 198 closes
    last_outcome,           \* outcome of the latest send_message call for recipients[index]
    slept,                  \* the time.sleep calls of the latest step
    tries,                  \* send_message calls made for recipients[index]
    transmissions           \* send_message calls made in the run

vars == <<pc, result, error, stop_on_error, config, blacklist_emails, recipients,
          records, sent_count, since_last_send, last_successful_email, index,
          attempt, email_sent_successfully, non_fatal_skip, sessions, server,
          managed, last_outcome, slept, tries, transmissions>>

Sat(t) == IF t > ClockCap THEN ClockCap ELSE t

Sleep(why, secs) == [why |-> why, secs |-> secs]

Row(i, email, status) == [row |-> i, email |-> email, status |-> status]

\* __init__ (lines 25-31); time.time() is far beyond last_send_time = 0
Init ==
    /\ pc = "start"
    /\ result = "running"
    /\ error = "none"
    /\ stop_on_error = TRUE
    /\ config \in Configs
    /\ blacklist_emails = {}
    /\ recipients = <<>>
    /\ records = <<>>
    /\ sent_count = 0
    /\ since_last_send = ClockCap
    /\ last_successful_email = NoEmail
    /\ index = 0
    /\ attempt = 0
    /\ email_sent_successfully = FALSE
    /\ non_fatal_skip = FALSE
    /\ sessions = <<>>
    /\ server = 0
    /\ managed = 0
    /\ last_outcome = NoOutcome
    /\ slept = <<>>
    /\ tries = 0
    /\ transmissions = 0

(***************************************************************************)
(* Decisions of the code, one operator per condition                       *)
(***************************************************************************)
\* the comparison without lower()
IsBlacklistedCaseSensitive(raw) == Strip(raw) \in blacklist_emails

\* lines 204-206
IsBlacklisted(raw) == Lower(Strip(raw)) \in blacklist_emails

\* > for >=
BatchLimitReachedStrict == sent_count > config.emails_per_batch

\* line 58
BatchLimitReached == sent_count >= config.emails_per_batch

\* the whole delay slept, not what is left of it
SpacingWaitFull(t) ==
    IF t < config.delay_between_emails THEN config.delay_between_emails ELSE 0

\* no spacing at all
SpacingWaitNone(t) == 0

\* lines 69-72: wait_time for time_since_last = t, 0 when the spacing has
\* already elapsed
SpacingWait(t) ==
    IF t < config.delay_between_emails
    THEN config.delay_between_emails - t
    ELSE 0

\* the counter set, not incremented
CountSentSet(n) == 1

\* line 244
CountSent(n) == n + 1

\* the trimmed address of line 204 kept, not recipient['email']
LastSuccessfulTrimmed(i) == Strip(recipients[i])

\* line 246
LastSuccessful(i) == recipients[i]

\* lines 299, 334, 358, 368, 374, 379: "Total emails sent successfully"
ReportedTotal == sent_count

\* main, lines 383-392: "Script completed successfully!" is printed when
\* send_newsletters returns, "Script failed" when it raises
ReportedSuccess == result = "returned"

\* one more retry than the range of line 218 holds
RetriesLeftOneMore == attempt < retries

\* line 251
RetriesLeft == attempt < retries - 1

\* the handler without its policy-violation branch
RejectionStatusNoPolicy(o) ==
    IF o.code = InvalidDomainCode THEN "skipped" ELSE "failed"

\* the policy-violation branch ahead of the 556 branch
RejectionStatusPolicyFirst(o) ==
    IF o.policy THEN "skipped_policy_violation"
    ELSE IF o.code = InvalidDomainCode THEN "skipped"
    ELSE "failed"

\* lines 276-294 and 311-329: status written by the SMTPRecipientsRefused and
\* SMTPDataError handlers
RejectionStatus(o) ==
    IF o.code = InvalidDomainCode THEN "skipped"
    ELSE IF o.policy THEN "skipped_policy_violation"
    ELSE "failed"

\* a status outside the closed set
ExceptionStatusUnlisted(o) ==
    IF o.policy THEN "skipped_policy_violation" ELSE "error"

\* lines 343-353: status written by the except Exception handler
ExceptionStatus(o) ==
    IF o.policy THEN "skipped_policy_violation" ELSE "failed"

\* the return taken without looking at stop_on_error
StopsRunIgnoringFlag(status) == status = "failed"

\* lines 296, 331, 355: the handler returns from send_newsletters
StopsRun(status) == stop_on_error /\ status = "failed"

\* line 365
AfterLoopStops(sent, skip) == ~sent /\ stop_on_error /\ ~skip

\* the loop loses the row after the one it has handled
AdvanceSkipsRow(i) == i + 2

\* line 202: the for loop moves to the next row of the recipient file
Advance(i) == i + 1

\* line 238: one more send_message call, for recipients[index] and in the run
Transmit ==
    /\ tries' = tries + 1
    /\ transmissions' = transmissions + 1

\* SMTP.__exit__ of the with statement of line 198
CloseManaged(s) == IF managed = 0 THEN s ELSE [s EXCEPT ![managed] = "closed"]

(***************************************************************************)
(* Setup (lines 154-200)                                                   *)
(***************************************************************************)
\* lines 154-160
Start ==
    /\ pc = "start"
    /\ stop_on_error' \in BOOLEAN
    /\ pc' = "load_blacklist"
    /\ slept' = <<>>
    /\ UNCHANGED <<result, error, config, blacklist_emails, recipients, records,
                   sent_count, since_last_send, last_successful_email, index, attempt,
                   email_sent_successfully, non_fatal_skip, sessions, server, managed,
                   last_outcome,
                   tries, transmissions>>

\* lines 166-167
LoadBlacklist ==
    /\ pc = "load_blacklist"
    /\ \E file \in BlacklistFiles : blacklist_emails' = ReadBlacklist(file)
    /\ pc' = "test_smtp"
    /\ slept' = <<>>
    /\ UNCHANGED <<result, error, stop_on_error, config, recipients, records,
                   sent_count, since_last_send, last_successful_email, index, attempt,
                   email_sent_successfully, non_fatal_skip, sessions, server, managed,
                   last_outcome,
                   tries, transmissions>>

\* fail open: the run goes on with an empty blacklist
LoadBlacklistFailsOpen ==
    /\ pc = "load_blacklist"
    /\ pc' = "test_smtp"
    /\ error' = "blacklist"
    /\ slept' = <<>>
    /\ UNCHANGED <<result, stop_on_error, config, blacklist_emails, recipients, records,
                   sent_count, since_last_send, last_successful_email, index, attempt,
                   email_sent_successfully, non_fatal_skip, sessions, server, managed,
                   last_outcome,
                   tries, transmissions>>

\* lines 168-172 (and 144-149): the file is missing or unreadable
LoadBlacklistFails ==
    /\ pc = "load_blacklist"
    /\ pc' = "done"
    /\ result' = "returned"
    /\ error' = "blacklist"
    /\ slept' = <<>>
    /\ UNCHANGED <<stop_on_error, config, blacklist_emails, recipients, records,
                   sent_count, since_last_send, last_successful_email, index, attempt,
                   email_sent_successfully, non_fatal_skip, sessions, server, managed,
                   last_outcome,
                   tries, transmissions>>

\* lines 176, 79-85
TestSmtpConnection ==
    /\ pc = "test_smtp"
    /\ sessions' = Append(sessions, "closed")
    /\ pc' = "read_inputs"
    /\ slept' = <<>>
    /\ UNCHANGED <<result, error, stop_on_error, config, blacklist_emails, recipients,
                   records, sent_count, since_last_send, last_successful_email, index,
                   attempt, email_sent_successfully, non_fatal_skip, server, managed,
                   last_outcome,
                   tries, transmissions>>

\* lines 86-91: the login is refused, or the relay cannot be reached
TestSmtpConnectionFails ==
    /\ pc = "test_smtp"
    /\ \E auth \in BOOLEAN :
          /\ sessions' = IF auth THEN Append(sessions, "closed") ELSE sessions
          /\ error' = IF auth THEN "test_auth" ELSE "test_connect"
    /\ pc' = "done"
    /\ result' = "raised"
    /\ slept' = <<>>
    /\ UNCHANGED <<stop_on_error, config, blacklist_emails, recipients, records,
                   sent_count, since_last_send, last_successful_email, index, attempt,
                   email_sent_successfully, non_fatal_skip, server, managed,
                   last_outcome,
                   tries, transmissions>>

\* lines 178-194
ReadInputs ==
    /\ pc = "read_inputs"
    /\ recipients' \in RecipientFiles
    /\ pc' = "connect"
    /\ slept' = <<>>
    /\ UNCHANGED <<result, error, stop_on_error, config, blacklist_emails, records,
                   sent_count, since_last_send, last_successful_email, index, attempt,
                   email_sent_successfully, non_fatal_skip, sessions, server, managed,
                   last_outcome,
                   tries, transmissions>>

\* lines 178-179: the template or the recipient file cannot be read
ReadInputsFails ==
    /\ pc = "read_inputs"
    /\ pc' = "done"
    /\ result' = "raised"
    /\ error' = "input"
    /\ slept' = <<>>
    /\ UNCHANGED <<stop_on_error, config, blacklist_emails, recipients, records,
                   sent_count, since_last_send, last_successful_email, index, attempt,
                   email_sent_successfully, non_fatal_skip, sessions, server, managed,
                   last_outcome,
                   tries, transmissions>>

\* lines 196-200
Connect ==
    /\ pc = "connect"
    /\ sessions' = Append(sessions, "open")
    /\ server' = Len(sessions) + 1
    /\ managed' = Len(sessions) + 1
    /\ index' = 1
    /\ pc' = "next"
    /\ slept' = <<>>
    /\ UNCHANGED <<result, error, stop_on_error, config, blacklist_emails, recipients,
                   records, sent_count, since_last_send, last_successful_email, attempt,
                   email_sent_successfully, non_fatal_skip, last_outcome,
                   tries, transmissions>>

\* lines 198-199 raise, 376-381
ConnectFails ==
    /\ pc = "connect"
    /\ \E auth \in BOOLEAN :
          /\ sessions' = IF auth THEN Append(sessions, "closed") ELSE sessions
          /\ error' = IF auth THEN "auth" ELSE "connect"
    /\ pc' = "done"
    /\ result' = "raised"
    /\ slept' = <<>>
    /\ UNCHANGED <<stop_on_error, config, blacklist_emails, recipients, records,
                   sent_count, since_last_send, last_successful_email, index, attempt,
                   email_sent_successfully, non_fatal_skip, server, managed,
                   last_outcome,
                   tries, transmissions>>

(***************************************************************************)
(* The recipient loop (lines 202-216, 364-374)                             *)
(***************************************************************************)
\* the rate limiter called ahead of the blacklist check
SkipBlacklistedAfterRateLimit ==
    /\ pc = "next"
    /\ index <= Len(recipients)
    /\ IsBlacklisted(recipients[index])
    /\ records' = Append(records, Row(index, Strip(recipients[index]), "skipped_blacklist"))
    /\ index' = Advance(index)
    /\ last_outcome' = NoOutcome
    /\ slept' = <<Sleep("spacing", SpacingWait(since_last_send))>>
    /\ since_last_send' = Sat(since_last_send + SpacingWait(since_last_send))
    /\ UNCHANGED <<pc, result, error, stop_on_error, config, blacklist_emails,
                   recipients, sent_count, last_successful_email,
                   attempt, email_sent_successfully, non_fatal_skip, sessions, server,
                   managed,
                   tries, transmissions>>

\* lines 203-211
SkipBlacklisted ==
    /\ pc = "next"
    /\ index <= Len(recipients)
    /\ IsBlacklisted(recipients[index])
    /\ records' = Append(records, Row(index, Strip(recipients[index]), "skipped_blacklist"))
    /\ index' = Advance(index)
    /\ last_outcome' = NoOutcome
    /\ slept' = <<>>
    /\ UNCHANGED <<pc, result, error, stop_on_error, config, blacklist_emails,
                   recipients, sent_count, since_last_send, last_successful_email,
                   attempt, email_sent_successfully, non_fatal_skip, sessions, server,
                   managed,
                   tries, transmissions>>

\* lines 213-218
BeginRecipient ==
    /\ pc = "next"
    /\ index <= Len(recipients)
    /\ ~IsBlacklisted(recipients[index])
    /\ attempt' = 0
    /\ email_sent_successfully' = FALSE
    /\ non_fatal_skip' = FALSE
    /\ pc' = "rate_limit"
    /\ last_outcome' = NoOutcome
    /\ slept' = <<>>
    /\ tries' = 0
    /\ UNCHANGED <<result, error, stop_on_error, config, blacklist_emails, recipients,
                   records, sent_count, since_last_send, last_successful_email, index,
                   sessions, server, managed,
                   transmissions>>

\* lines 372-374, then the with statement of line 198 ends
Complete ==
    /\ pc = "next"
    /\ index > Len(recipients)
    /\ sessions' = CloseManaged(sessions)
    /\ pc' = "done"
    /\ result' = "returned"
    /\ last_outcome' = NoOutcome
    /\ slept' = <<>>
    /\ UNCHANGED <<error, stop_on_error, config, blacklist_emails, recipients, records,
                   sent_count, since_last_send, last_successful_email, index, attempt,
                   email_sent_successfully, non_fatal_skip, server, managed,
                   tries, transmissions>>

(***************************************************************************)
(* _rate_limit (lines 56-75), called at line 223                           *)
(***************************************************************************)
RateLimit ==
    /\ pc = "rate_limit"
    /\ IF BatchLimitReached
       THEN /\ slept' = <<Sleep("batch", config.batch_delay)>>
            /\ since_last_send' = Sat(since_last_send + config.batch_delay)
            /\ sent_count' = 0
       ELSE /\ \E dt \in Elapsed :
                  LET t == Sat(since_last_send + dt)   \* line 70, clock read at line 69
                      w == SpacingWait(t)
                  IN  /\ slept' = IF w > 0 THEN <<Sleep("spacing", w)>> ELSE <<>>
                      /\ since_last_send' = Sat(t + w)
            /\ sent_count' = sent_count
    /\ pc' = "send"
    /\ UNCHANGED <<result, error, stop_on_error, config, blacklist_emails, recipients,
                   records, last_successful_email, index, attempt,
                   email_sent_successfully, non_fatal_skip, sessions, server, managed,
                   last_outcome,
                   tries, transmissions>>

(***************************************************************************)
(* One attempt (lines 225-362)                                             *)
(***************************************************************************)
\* lines 238-248
SendSuccess ==
    /\ pc = "send"
    /\ \E o \in {x \in SendOutcomes : x.kind = "ok"} : last_outcome' = o
    /\ records' = Append(records, Row(index, recipients[index], "success"))
    /\ sent_count' = CountSent(sent_count)
    /\ since_last_send' = 0
    /\ last_successful_email' = LastSuccessful(index)
    /\ email_sent_successfully' = TRUE
    /\ index' = Advance(index)
    /\ pc' = "next"
    /\ slept' = <<>>
    /\ Transmit
    /\ UNCHANGED <<result, error, stop_on_error, config, blacklist_emails, recipients,
                   attempt, non_fatal_skip, sessions, server, managed>>

\* What the three failure handlers share: the row written, the pause, and
\* either the return of lines 296-302 (331-337, 355-361) or the break followed
\* by line 365
Handled(o, status, dt) ==
    /\ last_outcome' = o
    /\ records' = Append(records, Row(index, recipients[index], status))
    /\ IF status = "skipped_policy_violation"
       THEN /\ slept' = <<Sleep("policy", PolicyPause)>>
            /\ since_last_send' = Sat(since_last_send + dt + PolicyPause)
       ELSE /\ slept' = <<>>
            /\ since_last_send' = Sat(since_last_send + dt)
    /\ non_fatal_skip' = (status \in {"skipped", "skipped_policy_violation"})
    /\ IF StopsRun(status) \/ AfterLoopStops(email_sent_successfully, non_fatal_skip')
       THEN /\ pc' = "done"
            /\ result' = "returned"
            /\ error' = "stopped"
            /\ sessions' = CloseManaged(sessions)
            /\ index' = index
       ELSE /\ pc' = "next"
            /\ index' = Advance(index)
            /\ UNCHANGED <<result, error, sessions>>
    /\ Transmit
    /\ UNCHANGED <<stop_on_error, config, blacklist_emails, recipients, sent_count,
                   last_successful_email, attempt, email_sent_successfully, server,
                   managed>>

\* lines 259-303
SendRecipientsRefused ==
    /\ pc = "send"
    /\ \E o \in {x \in SendOutcomes : x.kind = "refused"}, dt \in Elapsed :
          Handled(o, RejectionStatus(o), dt)

\* lines 304-338
SendDataError ==
    /\ pc = "send"
    /\ \E o \in {x \in SendOutcomes : x.kind = "data"}, dt \in Elapsed :
          Handled(o, RejectionStatus(o), dt)

\* lines 339-362
SendException ==
    /\ pc = "send"
    /\ \E o \in {x \in SendOutcomes : x.kind = "other"}, dt \in Elapsed :
          Handled(o, ExceptionStatus(o), dt)

\* lines 250-253: the library closes the socket when it raises
\* SMTPServerDisconnected; attempts remain
SendDisconnected ==
    /\ pc = "send"
    /\ RetriesLeft
    /\ \E o \in {x \in SendOutcomes : x.kind = "disconnected"} : last_outcome' = o
    /\ \E dt \in Elapsed : since_last_send' = Sat(since_last_send + dt)
    /\ sessions' = [sessions EXCEPT ![server] = "closed"]
    /\ pc' = "reconnect"
    /\ slept' = <<>>
    /\ Transmit
    /\ UNCHANGED <<result, error, stop_on_error, config, blacklist_emails, recipients,
                   records, sent_count, last_successful_email, index, attempt,
                   email_sent_successfully, non_fatal_skip, server, managed>>

\* lines 257-258: the last attempt re-raises; a raise inside an except clause
\* is not caught by the later clauses of the same try, so it reaches
\* lines 376-381
SendDisconnectedLast ==
    /\ pc = "send"
    /\ ~RetriesLeft
    /\ \E o \in {x \in SendOutcomes : x.kind = "disconnected"} : last_outcome' = o
    /\ \E dt \in Elapsed : since_last_send' = Sat(since_last_send + dt)
    /\ sessions' = CloseManaged([sessions EXCEPT ![server] = "closed"])
    /\ pc' = "done"
    /\ result' = "raised"
    /\ error' = "disconnected"
    /\ slept' = <<>>
    /\ Transmit
    /\ UNCHANGED <<stop_on_error, config, blacklist_emails, recipients, records,
                   sent_count, last_successful_email, index, attempt,
                   email_sent_successfully, non_fatal_skip, server, managed>>

\* lines 252-256, then the next iteration of line 218
Reconnect ==
    /\ pc = "reconnect"
    /\ slept' = <<Sleep("reconnect", ReconnectPause)>>
    /\ since_last_send' = Sat(since_last_send + ReconnectPause)
    /\ sessions' = Append(sessions, "open")
    /\ server' = Len(sessions) + 1
    /\ attempt' = attempt + 1
    /\ pc' = "rate_limit"
    /\ UNCHANGED <<result, error, stop_on_error, config, blacklist_emails, recipients,
                   records, sent_count, last_successful_email, index,
                   email_sent_successfully, non_fatal_skip, managed, last_outcome,
                   tries, transmissions>>

\* lines 255-256 raise inside the except clause and reach lines 376-381: the
\* relay is unreachable, or it is reached and refuses the login
ReconnectFails ==
    /\ pc = "reconnect"
    /\ slept' = <<Sleep("reconnect", ReconnectPause)>>
    /\ since_last_send' = Sat(since_last_send + ReconnectPause)
    /\ \E auth \in BOOLEAN :
          /\ sessions' = CloseManaged(IF auth THEN Append(sessions, "open") ELSE sessions)
          /\ server' = IF auth THEN Len(sessions) + 1 ELSE server
          /\ error' = IF auth THEN "reconnect_auth" ELSE "reconnect_connect"
    /\ pc' = "done"
    /\ result' = "raised"
    /\ UNCHANGED <<stop_on_error, config, blacklist_emails, recipients, records,
                   sent_count, last_successful_email, index, attempt,
                   email_sent_successfully, non_fatal_skip, managed, last_outcome,
                   tries, transmissions>>

Next ==
    \/ Start
    \/ LoadBlacklist
    \/ LoadBlacklistFails
    \/ TestSmtpConnection
    \/ TestSmtpConnectionFails
    \/ ReadInputs
    \/ ReadInputsFails
    \/ Connect
    \/ ConnectFails
    \/ SkipBlacklisted
    \/ BeginRecipient
    \/ Complete
    \/ RateLimit
    \/ SendSuccess
    \/ SendRecipientsRefused
    \/ SendDataError
    \/ SendException
    \/ SendDisconnected
    \/ SendDisconnectedLast
    \/ Reconnect
    \/ ReconnectFails

Spec == Init /\ [][Next]_vars

(***************************************************************************)
(* Vocabulary of the properties                                            *)
(***************************************************************************)
\* The recipient of row i is in the Suppression Set, after trimming and
\* lowercasing
Suppressed(i) ==
    \E e \in blacklist_emails : e = Lower(Strip(recipients[i]))

RecordsOf(i) == {k \in 1..Len(records) : records[k].row = i}

LastRecord == records[Len(records)]

InAttemptLoop == pc \in {"rate_limit", "send", "reconnect"}

\* A send_message call has been made for recipients[i]
Started(i) == i < index \/ (i = index /\ last_outcome.kind # "none")

\* The latest send_message call failed in one of the three handlers that
\* write a row (lines 259-362)
Rejected == last_outcome.kind \in {"refused", "data"}
Failed == last_outcome.kind \in {"refused", "data", "other"}

\* neither a disconnect, nor code 556, nor 'policy violation' text
Unclassified ==
    /\ Failed
    /\ last_outcome.code # InvalidDomainCode
    /\ ~last_outcome.policy

\* The handler wrote this status for recipients[index] and went on to the
\* next recipient, with the run still going
WentOnWith(status) ==
    /\ pc = "next"
    /\ result = "running"
    /\ error = "none"
    /\ index >= 2
    /\ Len(records) = index - 1
    /\ LastRecord.row = index - 1
    /\ LastRecord.status = status
    /\ Cardinality(RecordsOf(index - 1)) = 1

\* The handler wrote this status for recipients[index] and returned from
\* send_newsletters: nothing was done for the later recipients
HaltedWith(status) ==
    /\ pc = "done"
    /\ result = "returned"
    /\ Len(records) = index
    /\ LastRecord.row = index
    /\ LastRecord.status = status
    /\ \A k \in 1..Len(records) : records[k].row <= index
    /\ ~ENABLED Next

\* The third attempt for recipients[index] ended in a disconnect
ThirdDisconnect ==
    /\ last_outcome.kind = "disconnected"
    /\ attempt = retries - 1
    /\ ~InAttemptLoop

C2_StartedRecipientHasOneRecord ==
    pc = "done" =>
        \A i \in 1..Len(recipients) :
            /\ Started(i) => Cardinality(RecordsOf(i)) = 1
            /\ i > index => Cardinality(RecordsOf(i)) = 0

(***************************************************************************)
(* C3: after a send failure that is neither a disconnect, nor code 556,    *)
(* nor policy-violation text, a failed row is written for that recipient;  *)
(* with stop_on_error the run has halted with nothing done for the later   *)
(* recipients, without it the engine is at the next recipient.  With       *)
(* stop_on_error a failed row is always the last thing the run did.        *)
(***************************************************************************)
C3_StopOnErrorPolicy ==
    /\ Unclassified =>
          IF stop_on_error THEN HaltedWith("failed") ELSE WentOnWith("failed")
    /\ stop_on_error =>
          \A k \in 1..Len(records) :
              records[k].status = "failed" => k = Len(records) /\ pc = "done"

\* stop_on_error halts the run at the first of two recipients, after a
\* rejection with an ordinary code
C3_Witness ==
    /\ stop_on_error
    /\ Unclassified
    /\ last_outcome.kind = "refused"
    /\ pc = "done"
    /\ index = 1
    /\ Len(recipients) = 2
    /\ Len(records) = 1

(***************************************************************************)
(* C4: when the third attempt for a recipient also ends in a disconnect, a *)
(* failed row is written for the recipient, and the run halts if           *)
(* stop_on_error is set and goes on with the next recipient otherwise.     *)
(***************************************************************************)
C4_ExhaustedRetriesRecordFailed ==
    ThirdDisconnect =>
        /\ Len(records) > 0
        /\ LastRecord.status = "failed"
        /\ IF stop_on_error
           THEN result = "returned" /\ LastRecord.row = index
           ELSE result = "running" /\ LastRecord.row = index - 1

(***************************************************************************)
(* C5 as stated: every failure whose text holds 'policy violation', with   *)
(* any status code (556 included), gives a skipped_policy_violation row, a *)
(* 600-second sleep and the next recipient, whatever stop_on_error is.     *)
(***************************************************************************)
C5_PolicyViolationAnyCode ==
    (Failed /\ last_outcome.policy) =>
        /\ WentOnWith("skipped_policy_violation")
        /\ slept = <<Sleep("policy", PolicyPause)>>

(***************************************************************************)
(* C5 amended: a failure whose text holds 'policy violation' and whose     *)
(* status code is not 556 gives a skipped_policy_violation row, a          *)
(* 600-second sleep and the next recipient, whatever stop_on_error is.     *)
(***************************************************************************)
C5_PolicyViolationUnless556 ==
    (Failed /\ last_outcome.policy /\ last_outcome.code # InvalidDomainCode) =>
        /\ WentOnWith("skipped_policy_violation")
        /\ slept = <<Sleep("policy", PolicyPause)>>

\* A data error with policy-violation text under stop_on_error
C5_Witness ==
    /\ stop_on_error
    /\ last_outcome.kind = "data"
    /\ last_outcome.policy
    /\ last_outcome.code # InvalidDomainCode
    /\ pc = "next"
    /\ LastRecord.status = "skipped_policy_violation"
    /\ slept = <<Sleep("policy", PolicyPause)>>

(***************************************************************************)
(* C6: a rejection with status code 556 gives a skipped row, no sleep, and *)
(* the next recipient with the run still going, whatever stop_on_error is  *)
(* and whatever the text of the rejection.                                 *)
(***************************************************************************)
C6_InvalidDomainSkipped ==
    (Rejected /\ last_outcome.code = InvalidDomainCode) =>
        /\ WentOnWith("skipped")
        /\ slept = <<>>

\* Code 556 together with policy-violation text, under stop_on_error
C6_Witness ==
    /\ stop_on_error
    /\ last_outcome.kind = "refused"
    /\ last_outcome.code = InvalidDomainCode
    /\ last_outcome.policy
    /\ pc = "next"
    /\ LastRecord.status = "skipped"

(***************************************************************************)
(* C7: a call of the rate limiter made with sent_count >= emails_per_batch *)
(* sleeps batch_delay once and leaves sent_count at 0, and every           *)
(* transmission attempt is made with sent_count < emails_per_batch.        *)
(***************************************************************************)
C7_BatchCooldown ==
    [][/\ (pc = "rate_limit" /\ sent_count >= config.emails_per_batch) =>
             /\ slept' = <<Sleep("batch", config.batch_delay)>>
             /\ sent_count' = 0
             /\ pc' = "send"
       /\ pc' = "send" => sent_count' < config.emails_per_batch
       /\ (pc = "rate_limit" /\ sent_count < config.emails_per_batch) =>
             /\ sent_count' = sent_count
             /\ \A k \in 1..Len(slept') : slept'[k].why # "batch"]_vars

\* The attempt for the second recipient, right after the cooldown that
\* follows a full batch
C7_Witness ==
    /\ pc = "send"
    /\ index = 2
    /\ records[1].status = "success"
    /\ slept = <<Sleep("batch", config.batch_delay)>>
    /\ sent_count = 0

(***************************************************************************)
(* C8: the rows of the results file follow the rows of the recipient file: *)
(* row k is about recipient k and carries its address, and while the       *)
(* engine is at recipient index every earlier recipient has its row and no *)
(* later one has any.                                                      *)
(***************************************************************************)
C8_RecordsInInputOrder ==
    /\ \A k \in 1..Len(records) :
          /\ records[k].row = k
          /\ k <= Len(recipients)
          /\ records[k].email \in {recipients[k], Strip(recipients[k])}
    /\ index >= 1 => Len(records) \in {index - 1, index}
    /\ InAttemptLoop => Len(records) = index - 1

\* The second recipient is being sent to, the first has its row
C8_Witness ==
    /\ pc = "send"
    /\ index = 2
    /\ Len(records) = 1
    /\ records[1].row = 1

(***************************************************************************)
(* C9: without stop_on_error, once the session is open the run ends only   *)
(* after every recipient has its row.                                      *)
(***************************************************************************)
C9_ContinueDespiteErrors ==
    (~stop_on_error /\ managed # 0 /\ pc = "done") =>
        /\ Len(records) = Len(recipients)
        /\ result = "returned"

(***************************************************************************)
(* C10: when the blacklist cannot be loaded or the connection test fails,  *)
(* the run has ended: the long-lived session was never opened, the         *)
(* recipients were never read, no attempt was made and no row written.     *)
(***************************************************************************)
C10_SetupFailureEndsRun ==
    error \in {"blacklist", "test_auth", "test_connect"} =>
        /\ pc = "done"
        /\ managed = 0
        /\ server = 0
        /\ \A s \in 1..Len(sessions) : sessions[s] = "closed"
        /\ recipients = <<>>
        /\ records = <<>>
        /\ last_outcome = NoOutcome
        /\ sent_count = 0
        /\ ~ENABLED Next

\* The blacklist file is missing
C10_Witness ==
    /\ error = "blacklist"
    /\ pc = "done"
    /\ result = "returned"

(***************************************************************************)
(* Vocabulary of the later properties                                      *)
(***************************************************************************)
Statuses ==
    {"success", "skipped_blacklist", "skipped", "skipped_policy_violation", "failed"}

\* The run ended on a startup error: the blacklist, the connection test, or
\* the opening of the long-lived session
StartupError ==
    error \in {"blacklist", "test_auth", "test_connect", "auth", "connect"}

\* The rows of the results file that carry the address a (blanks apart)
RowsWithAddress(a) == {k \in 1..Len(records) : Strip(records[k].email) = Strip(a)}

\* The rows of the recipient file that carry the address a (blanks apart)
RecipientsWithAddress(a) ==
    {j \in 1..Len(recipients) : Strip(recipients[j]) = Strip(a)}

SuccessRows == {k \in 1..Len(records) : records[k].status = "success"}

\* The run has ended at a place that prints "Total emails sent successfully"
ReportPrinted ==
    /\ pc = "done"
    /\ error \notin {"blacklist", "test_auth", "test_connect", "input"}

\* This step is a successful send_message call
SuccessStep ==
    /\ pc = "send"
    /\ Len(records') = Len(records) + 1
    /\ records'[Len(records')].status = "success"

(***************************************************************************)
(* C11: a run that ended on a startup error (blacklist load failure,       *)
(* refused login, unreachable relay) has raised out of send_newsletters    *)
(* and is not reported as completed successfully.                          *)
(***************************************************************************)
C11_StartupErrorsPropagate ==
    StartupError => (result = "raised" /\ ~ReportedSuccess)

(***************************************************************************)
(* C12 as stated: every address of the recipient file is in at most one    *)
(* row of the results file, and every row has a status of the closed set.  *)
(***************************************************************************)
C12_AddressAtMostOnce ==
    /\ \A i \in 1..Len(recipients) : Cardinality(RowsWithAddress(recipients[i])) <= 1
    /\ \A k \in 1..Len(records) : records[k].status \in Statuses

(***************************************************************************)
(* C12 amended: every row of the recipient file has at most one row in the *)
(* results file, so an address is in at most as many rows of the results   *)
(* file as of the recipient file, and every row has a status of the closed *)
(* set.                                                                    *)
(***************************************************************************)
C12_RowAtMostOnce ==
    /\ \A i \in 1..Len(recipients) :
          /\ Cardinality(RecordsOf(i)) <= 1
          /\ Cardinality(RowsWithAddress(recipients[i]))
                <= Cardinality(RecipientsWithAddress(recipients[i]))
    /\ \A k \in 1..Len(records) :
          /\ records[k].status \in Statuses
          /\ records[k].row \in 1..Len(recipients)
          /\ Strip(records[k].email) = Strip(recipients[records[k].row])

\* The same address in two rows of the recipient file, both with their row
C12_Witness ==
    /\ Len(recipients) = 2
    /\ recipients[1] = recipients[2]
    /\ Len(records) = 2
    /\ records[1].email = records[2].email
    /\ records[1].status = "failed"
    /\ records[2].status = "success"

(***************************************************************************)
(* C13: in every path that would otherwise end in the generic failure      *)
(* handling, the exhausted disconnect retries included, a failure whose    *)
(* text holds 'policy violation' gives a skipped_policy_violation row, a   *)
(* 600-second sleep and the next recipient, whatever stop_on_error is.     *)
(* (Rejections with code 556 are left out here: see C5.)                   *)
(***************************************************************************)
C13_PolicyBeforeGenericFailure ==
    (/\ last_outcome.policy
     /\ last_outcome.code # InvalidDomainCode
     /\ Failed \/ ThirdDisconnect) =>
        /\ WentOnWith("skipped_policy_violation")
        /\ slept = <<Sleep("policy", PolicyPause)>>

(***************************************************************************)
(* C14: the total printed when the run ends is the number of success rows  *)
(* of the results file.                                                    *)
(***************************************************************************)
C14_ReportedTotalIsSuccessCount ==
    ReportPrinted => ReportedTotal = Cardinality(SuccessRows)

(***************************************************************************)
(* C15: a call of the rate limiter applies one rule.  With sent_count >=   *)
(* emails_per_batch it sleeps batch_delay, once, and sets sent_count to 0. *)
(* Otherwise it leaves sent_count alone and sleeps at most once, no longer *)
(* than what is left of delay_between_emails: when it has slept, exactly   *)
(* delay_between_emails have passed since the last send, and when it has   *)
(* not, at least that much.  It never moves last_send_time (the time since *)
(* the last send does not go back) nor the last successful address.        *)
(***************************************************************************)
C15_RateLimiterRules ==
    [][pc = "rate_limit" =>
         /\ last_successful_email' = last_successful_email
         /\ since_last_send' >= since_last_send
         /\ pc' = "send"
         /\ IF sent_count >= config.emails_per_batch
            THEN /\ slept' = <<Sleep("batch", config.batch_delay)>>
                 /\ sent_count' = 0
                 /\ since_last_send' = Sat(since_last_send + config.batch_delay)
            ELSE /\ sent_count' = sent_count
                 /\ IF slept' = <<>>
                    THEN since_last_send' >= config.delay_between_emails
                    ELSE /\ Len(slept') = 1
                         /\ slept'[1].why = "spacing"
                         /\ slept'[1].secs > 0
                         /\ slept'[1].secs <= config.delay_between_emails - since_last_send
                         /\ since_last_send' = Sat(config.delay_between_emails)]_vars

\* Part of the spacing had elapsed when the rate limiter read the clock
C15_Witness ==
    /\ pc = "send"
    /\ slept = <<Sleep("spacing", 1)>>
    /\ since_last_send = config.delay_between_emails
    /\ sent_count = 1

(***************************************************************************)
(* C16: in every step sent_count stays as it is, or grows by exactly 1,    *)
(* which every successful send and no other step does, or is set to 0 by   *)
(* the rate limiter in the step that sleeps batch_delay.                   *)
(***************************************************************************)
C16_SentCountSteps ==
    [][\/ sent_count' = sent_count /\ ~SuccessStep
       \/ sent_count' = sent_count + 1 /\ SuccessStep
       \/ /\ sent_count' = 0
          /\ sent_count > 0
          /\ pc = "rate_limit"
          /\ slept' = <<Sleep("batch", config.batch_delay)>>]_vars

\* A failure after a success has left sent_count at 1
C16_Witness ==
    /\ Len(records) = 2
    /\ records[1].status = "success"
    /\ records[2].status = "skipped_policy_violation"
    /\ sent_count = 1
    /\ pc = "next"

(***************************************************************************)
(* C17: the step that handles a suppressed recipient writes its            *)
(* skipped_blacklist row and moves to the next recipient; it leaves        *)
(* sent_count, the time since the last send and the last successful        *)
(* address alone, sleeps nowhere, starts no attempt and leaves the         *)
(* sessions as they are.                                                   *)
(***************************************************************************)
C17_SuppressedFrame ==
    [][(pc = "next" /\ index \in 1..Len(recipients) /\ Suppressed(index)) =>
         /\ records' = Append(records,
                              Row(index, Strip(recipients[index]), "skipped_blacklist"))
         /\ index' = index + 1
         /\ pc' = "next"
         /\ slept' = <<>>
         /\ UNCHANGED <<sent_count, since_last_send, last_successful_email, attempt,
                        sessions, server, managed, result, error>>]_vars

\* A suppressed recipient handled right after a successful send
C17_Witness ==
    /\ Len(records) = 2
    /\ records[1].status = "success"
    /\ records[2].status = "skipped_blacklist"
    /\ sent_count = 1
    /\ since_last_send = 0
    /\ last_successful_email = recipients[1]
    /\ index = 3

(***************************************************************************)
(* C18: the last successful address is the address of the latest success   *)
(* row, None when there is none; and a successful send writes the success  *)
(* row of its recipient, adds 1 to sent_count, sets the last successful    *)
(* address to that recipient and leaves the attempt loop.                  *)
(***************************************************************************)
C18_LastSuccessfulAddress ==
    /\ [](IF SuccessRows = {}
          THEN last_successful_email = NoEmail
          ELSE LET k == CHOOSE m \in SuccessRows : \A n \in SuccessRows : n <= m
               IN  last_successful_email = records[k].email)
    /\ [][(pc = "send" /\ last_outcome'.kind = "ok") =>
            /\ records' = Append(records, Row(index, recipients[index], "success"))
            /\ sent_count' = sent_count + 1
            /\ last_successful_email' = recipients[index]
            /\ email_sent_successfully'
            /\ pc' = "next"
            /\ index' = index + 1]_vars

\* The latest success row is not the last row of the file
C18_Witness ==
    /\ Len(records) = 2
    /\ recipients[1] = <<"A", " ">>
    /\ records[1].status = "success"
    /\ records[2].status = "failed"
    /\ last_successful_email = <<"A", " ">>

(***************************************************************************)
(* C19 as stated: every transmission attempt made after a successful send  *)
(* starts at least delay_between_emails after it.                          *)
(***************************************************************************)
C19_SpacingAlways ==
    (pc = "send" /\ last_successful_email # NoEmail) =>
        since_last_send >= config.delay_between_emails

(***************************************************************************)
(* C19 amended: every transmission attempt made after a successful send    *)
(* starts at least delay_between_emails after it, unless the rate-limiter  *)
(* call before it took the batch cooldown with batch_delay smaller than    *)
(* delay_between_emails: then it starts at least batch_delay after it.     *)
(***************************************************************************)
C19_SpacingUnlessCooldown ==
    (pc = "send" /\ last_successful_email # NoEmail) =>
        \/ since_last_send >= config.delay_between_emails
        \/ /\ config.batch_delay < config.delay_between_emails
           /\ slept = <<Sleep("batch", config.batch_delay)>>
           /\ since_last_send >= config.batch_delay

\* An attempt one second after a successful send, the cooldown being shorter
\* than the spacing
C19_Witness ==
    /\ pc = "send"
    /\ last_successful_email # NoEmail
    /\ config.batch_delay < config.delay_between_emails
    /\ slept = <<Sleep("batch", config.batch_delay)>>
    /\ since_last_send = config.batch_delay

(***************************************************************************)
(* C20: sent_count stays between 0 and emails_per_batch.                   *)
(***************************************************************************)
C20_SentCountBounded ==
    /\ 0 <= sent_count
    /\ sent_count <= config.emails_per_batch

\* A full batch of two
C20_Witness ==
    /\ config.emails_per_batch = 2
    /\ sent_count = 2
    /\ Cardinality(SuccessRows) = 2

(***************************************************************************)
(* Termination (lines 202, 218): the two loops are for loops over finite   *)
(* ranges, and every wait and every network call is taken to return, so a  *)
(* step that can be taken is taken.                                        *)
(***************************************************************************)
FairSpec == Spec /\ WF_vars(Next)

\* The recipients that are not in the Suppression Set
NonSuppressed == {i \in 1..Len(recipients) : ~Suppressed(i)}

\* This step is a send_message call
TransmitStep == transmissions' = transmissions + 1

(***************************************************************************)
(* C21: every run ends, and it stays ended.  No recipient gets more than 3 *)
(* send_message calls; a call after the first for a recipient follows a    *)
(* disconnect of the call before it, for the same recipient; the calls of  *)
(* the run are at most 3 for each non-suppressed recipient reached so far, *)
(* so at most 3 times the number of non-suppressed recipients.             *)
(***************************************************************************)
C21_TerminatesWithinRetries ==
    /\ <>[](pc = "done")
    /\ [](/\ tries <= retries
          /\ transmissions
                <= retries * Cardinality({i \in NonSuppressed : i <= index})
          /\ transmissions <= retries * Cardinality(NonSuppressed)
          /\ pc = "done" => ~ENABLED Next)
    /\ [][TransmitStep =>
            /\ pc = "send"
            /\ index \in NonSuppressed
            /\ tries' = tries + 1
            /\ tries = attempt
            /\ tries > 0 => last_outcome.kind = "disconnected"]_vars

\* Three calls for each of two recipients: the third one succeeds for the
\* first recipient and ends in a disconnect for the second
C21_Witness ==
    /\ pc = "done"
    /\ Len(recipients) = 2
    /\ NonSuppressed = {1, 2}
    /\ Len(records) = 1
    /\ records[1].status = "success"
    /\ tries = retries
    /\ transmissions = retries * 2
    /\ last_outcome.kind = "disconnected"

(***************************************************************************)
(* C22: when the run has ended, every SMTP_SSL object made during the run, *)
(* those made by a reconnect included, is closed.                          *)
(***************************************************************************)
C22_NoSessionLeftOpen ==
    pc = "done" => \A s \in 1..Len(sessions) : sessions[s] = "closed"

=============================================================================
